---- MODULE Spec2Model ----
(***************************************************************************)
(* Model of fluidex/common-rs.                                             *)
(*                                                                         *)
(* Spec: src/types/floats.rs, the generic decimal float Floats<T, NBITS>   *)
(* (significand * 10^exponent packed into NBITS + (8 - NBITS % 8) bits).   *)
(* SpecMerge: src/helper.rs, the k-way MergeSortIterator.                  *)
(* Spec864: src/types/float864.rs, the 9-byte Float864.                    *)
(* Each specification runs one of the three and leaves the variables of    *)
(* the other two idle.                                                     *)
(*                                                                         *)
(* T and NBITS are compile-time parameters; the model instantiates them    *)
(* with the narrow primitive types (i8, u8, i16) so that every quantity    *)
(* stays inside the model checker's integers.  A value of the program is   *)
(* constructed once (from_bigint, from_decimal, a struct literal through   *)
(* the public fields, or decode), then consumed by one of the conversions, *)
(* and the bytes produced by encode may be decoded again.                  *)
(***************************************************************************)
EXTENDS Integers, Sequences, FiniteSets, TLC

VARIABLES
    ty,     \* the instantiation Floats<T, NBITS>: [signed, eff_bits, nbits]
    pc,     \* "start" -> ("from_bigint" | "from_decimal") -> "built" -> "used" -> "done"
    src,    \* what the value was constructed from
    loop,   \* the variables of the stripping loop while a constructor runs
    val,    \* Result<Floats<T, NBITS>> of the construction
    out,    \* result of the conversion applied to val
    back,   \* Result<Floats<T, NBITS>> of decode applied to the bytes of encode
    twin,   \* from_decimal applied to a decimal and prec with d * 10^prec == bi
    \* MergeSortIterator
    mpc,            \* "new" -> "iter" -> "end"
    inputs,         \* the Vec of sources given to the constructor
    ordering,       \* Order::Asc or Order::Desc
    mbuild,         \* debug_assertions on ("debug") or off ("release")
    sources,        \* BTreeMap<usize, I>: index -> the iterator and what it holds
    buffered,       \* BTreeMap<usize, T>
    last_elements,  \* BTreeMap<usize, T>, debug builds
    emitted,        \* the elements next() has returned so far
    polls,          \* how often next() of each given source was called
    nones,          \* how often next() has returned None
    \* the Vec-based MergeSortIterator of benches/merge_iterator_bench.rs
    opc,                \* "new" -> "iter" -> "end"
    old_sources,        \* Vec<I>: what every iterator still holds
    old_buffered,       \* Vec<Option<T>>
    old_last_elements,  \* Vec<Option<T>>, debug builds
    old_emitted,        \* the elements its next() has returned so far
    \* Float864
    fpc,     \* "start" -> "built" -> "encoded" -> "done"
    fval,    \* Result<Float864> of the construction
    fbytes,  \* the bytes given to decode or returned by encode
    fback,   \* Result<Float864> of decode applied to the bytes of encode
    fsrc,    \* the decimal and the prec given to Float864::from_decimal
    fout     \* the result of to_decimal and its prec

floatsVars == <<ty, pc, src, loop, val, out, back, twin>>

oldVars == <<opc, old_sources, old_buffered, old_last_elements, old_emitted>>

mergeVars ==
    <<mpc, inputs, ordering, mbuild, sources, buffered, last_elements, emitted,
      polls, nones, oldVars>>

f864Vars == <<fpc, fval, fbytes, fback, fsrc, fout>>

vars == <<floatsVars, twin, mergeVars, f864Vars>>

----------------------------------------------------------------------------
(* Bounds of the model *)

\* largest |mantissa| of the integers and decimals given to the constructors,
\* besides the mantissas around the NBITS bounds of the type
MaxMant == 12
\* most trailing decimal zeros of an input integer
MaxZeros == 9
\* most trailing decimal zeros of the mantissa of an input Decimal
MaxDecZeros == 3
\* largest scale of an input Decimal
MaxScaleIn == 3
\* largest precision passed to from_decimal / to_decimal (below the u8 wrap)
MaxPrec == 4
\* struct literals take every exponent up to this one, and those around max_exp
MaxLitExp == 2
\* struct literals reach this far outside the NBITS range of the significand
LitSlack == 2

----------------------------------------------------------------------------
(* Integer helpers: the arithmetic of num_bigint::BigInt / i128 *)

RECURSIVE Pow(_, _)
Pow(b, e) == IF e = 0 THEN 1 ELSE b * Pow(b, e - 1)

Pow2(e) == Pow(2, e)

Pow10(e) == Pow(10, e)

Abs(x) == IF x < 0 THEN -x ELSE x

\* `/` of BigInt and of i128 truncates toward zero
TruncDiv(a, b) == IF a >= 0 THEN a \div b ELSE -((-a) \div b)

\* u8 and u32 widths of the exponent counters
U8Mod == Pow2(8)

U8Max == U8Mod - 1

\* the model checker's integers are 32 bit: inputs stay below 2^31
IntLimit == (Pow2(30) - 1) + Pow2(30)

\* 10^e * s fits the model checker's integers
Fits(s, e) == e <= 9 /\ s >= -IntLimit /\ Abs(s) <= IntLimit \div Pow10(e)

----------------------------------------------------------------------------
(* The type parameters T and NBITS *)

I8N(n) == [signed |-> TRUE, eff_bits |-> 8, nbits |-> n]

U8N(n) == [signed |-> FALSE, eff_bits |-> 8, nbits |-> n]

I16N(n) == [signed |-> TRUE, eff_bits |-> 16, nbits |-> n]

I32N(n) == [signed |-> TRUE, eff_bits |-> 32, nbits |-> n]

\* Floats<i8,5>, Floats<i8,6>, Floats<i8,7>, Floats<u8,5>, Floats<u8,6>, the
\* byte-aligned Floats<i16,8> and the Floats<i32,24> of test_encode
Types == {I8N(5), I8N(6), I8N(7), U8N(5), U8N(6), I16N(8), I32N(24)}

\* T::min_value(): -2^(eff_bits - 1) for a signed T, summed from two halves
min_value(t) ==
    IF t.signed THEN (-Pow2(t.eff_bits - 2)) - Pow2(t.eff_bits - 2) ELSE 0

\* T::max_value(): 2^(eff_bits - 1) - 1 for a signed T, summed from two halves
max_value(t) ==
    IF t.signed
    THEN (Pow2(t.eff_bits - 2) - 1) + Pow2(t.eff_bits - 2)
    ELSE Pow2(t.eff_bits) - 1

\* T::from(x): None when x is outside T
T_from(t, x) == x >= min_value(t) /\ x <= max_value(t)

\* x >> k on a primitive integer (arithmetic for signed T)
Shr(x, k) == x \div Pow2(k)

\* T::min_value() >> (eff_bits - NBITS)
test_low_bound(t) == Shr(min_value(t), t.eff_bits - t.nbits)

\* T::max_value() >> (eff_bits - NBITS)
test_high_bound(t) == Shr(max_value(t), t.eff_bits - t.nbits)

\* (1 << (8 - NBITS % 8)) - 1
max_exp(t) == Pow2(8 - (t.nbits % 8)) - 1

\* (NBITS + 8 - NBITS % 8) / 8
encode_len(t) == (t.nbits + 8 - (t.nbits % 8)) \div 8

----------------------------------------------------------------------------
(* Results *)

NoVal == [st |-> "none", exponent |-> 0, significand |-> 0]

Ok(e, s) == [st |-> "ok", exponent |-> e, significand |-> s]

Err(kind) == [st |-> kind, exponent |-> 0, significand |-> 0]

\* Floats::zero()
zero == Ok(0, 0)

----------------------------------------------------------------------------
(* Packing: to_bigint, to_encoded_int, encode *)

IntRes(st, v) == [st |-> st, v |-> v]

\* sig_to_bigint: the significand widened to i128 / u128, value unchanged
sig_to_bigint(t, f) == f.significand

\* to_bigint: 10^exponent * significand
to_bigint(t, f) == Pow10(f.exponent) * sig_to_bigint(t, f)

\* mutant of to_encoded_int: a negative significand is added sign-extended,
\* without the 1 << NBITS that confines it to NBITS bits
to_encoded_int_signext(t, f) ==
    IF f.exponent > max_exp(t) % U8Mod
    THEN IntRes("ExponentTooBig", 0)
    ELSE IF f.significand = 0
    THEN IntRes("ok", 0)
    ELSE IntRes("ok", f.exponent * Pow2(t.nbits) + sig_to_bigint(t, f))

\* mutant of to_encoded_int: the zero shortcut comes before the exponent check
to_encoded_int_zerofirst(t, f) ==
    IF f.significand = 0
    THEN IntRes("ok", 0)
    ELSE IF f.exponent > max_exp(t) % U8Mod
    THEN IntRes("ExponentTooBig", 0)
    ELSE LET sig == sig_to_bigint(t, f) IN
         IF sig > 0
         THEN IntRes("ok", f.exponent * Pow2(t.nbits) + sig)
         ELSE IntRes("ok", f.exponent * Pow2(t.nbits) + (Pow2(t.nbits) + sig))

\* mutant of to_encoded_int: no shortcut for a zero significand, which then
\* takes the branch of the non-positive significands
to_encoded_int_noshortcut(t, f) ==
    IF f.exponent > max_exp(t) % U8Mod
    THEN IntRes("ExponentTooBig", 0)
    ELSE LET sig == sig_to_bigint(t, f) IN
         IF sig > 0
         THEN IntRes("ok", f.exponent * Pow2(t.nbits) + sig)
         ELSE IntRes("ok", f.exponent * Pow2(t.nbits) + (Pow2(t.nbits) + sig))

\* to_encoded_int: Err(ExponentTooBig), or the packed integer
to_encoded_int(t, f) ==
    IF f.exponent > max_exp(t) % U8Mod
    THEN IntRes("ExponentTooBig", 0)
    ELSE IF f.significand = 0
    THEN IntRes("ok", 0)
    ELSE LET sig == sig_to_bigint(t, f) IN
         IF sig > 0
         THEN IntRes("ok", f.exponent * Pow2(t.nbits) + sig)
         ELSE IntRes("ok", f.exponent * Pow2(t.nbits) + (Pow2(t.nbits) + sig))

\* BigInt::to_bytes_be: the magnitude in big-endian bytes, <<0>> for zero
RECURSIVE to_bytes_be(_)
to_bytes_be(x) ==
    IF x < U8Mod THEN <<x>> ELSE Append(to_bytes_be(x \div U8Mod), x % U8Mod)

\* BigInt::from_bytes_be(Sign::Plus, data)
RECURSIVE from_bytes_be(_)
from_bytes_be(data) ==
    IF Len(data) = 0 THEN 0
    ELSE from_bytes_be(SubSeq(data, 1, Len(data) - 1)) * U8Mod + data[Len(data)]

zeros(n) == [i \in 1..n |-> 0]

BytesRes(st, b) == [st |-> st, b |-> b]

\* mutant of encode: the zero bytes are appended after the bytes of the integer
encode_padright(t, f) ==
    LET bi == to_encoded_int(t, f) IN
    IF bi.st # "ok" THEN BytesRes("panic", <<>>)
    ELSE LET bytes == to_bytes_be(Abs(bi.v)) IN
         IF Len(bytes) > encode_len(t) THEN BytesRes("panic", <<>>)
         ELSE BytesRes("ok", bytes \o zeros(encode_len(t) - Len(bytes)))

\* mutant of encode: the bytes of the integer are returned without the padding
encode_nopad(t, f) ==
    LET bi == to_encoded_int(t, f) IN
    IF bi.st # "ok" THEN BytesRes("panic", <<>>)
    ELSE BytesRes("ok", to_bytes_be(Abs(bi.v)))

\* encode: unwrap of to_encoded_int, then left padding to encode_len bytes;
\* both the unwrap of an Err and a negative padding length abort
encode(t, f) ==
    LET bi == to_encoded_int(t, f) IN
    IF bi.st # "ok" THEN BytesRes("panic", <<>>)
    ELSE LET bytes == to_bytes_be(Abs(bi.v)) IN
         IF Len(bytes) > encode_len(t) THEN BytesRes("panic", <<>>)
         ELSE BytesRes("ok", zeros(encode_len(t) - Len(bytes)) \o bytes)

----------------------------------------------------------------------------
(* Unpacking: from_encoded_bigint, decode *)

\* from_encoded_bigint
from_encoded_bigint(t, bi0) ==
    LET bi == IF bi0 > 0 THEN bi0 ELSE -bi0
        signi_mask == Pow2(t.nbits) - 1
        significand == bi % Pow2(t.nbits)
        exponent == bi \div Pow2(t.nbits)
        signed_max == Pow2(t.nbits - 1)
        sig == IF t.signed
               THEN IF significand <= signed_max
                    THEN significand
                    ELSE -(signi_mask - significand + 1)
               ELSE significand
    IN  IF ~T_from(t, sig) THEN Err("NumberTooBig")
        ELSE IF exponent > U8Max THEN Err("ExponentTooBig")
        ELSE Ok(exponent, sig)

\* decode
decode(t, data) == from_encoded_bigint(t, from_bytes_be(data))

----------------------------------------------------------------------------
(* Construction from an integer: from_bigint *)

\* cargo profiles: integer overflow checks are on in debug and off in release
Builds == {"debug", "release"}

\* the variables of a stripping loop: n is encode_int (from_bigint) or test
\* (from_decimal), t is test_sig, e is exponent, b the build running it
Loop(b, n, t, e) == [b |-> b, n |-> n, t |-> t, e |-> e]

NoLoop == Loop("none", 0, 0, 0)

\* from_bigint up to the loop: exponent = 0, encode_int = bi, test_sig = bi / 10
from_bigint_enter(b, bi) == Loop(b, bi, TruncDiv(bi, 10), 0)

\* while encode_int == test_sig * 10 && exponent <= max_exp as u8
from_bigint_cond(t, l) == l.n = l.t * 10 /\ l.e <= max_exp(t) % U8Mod

\* `exponent += 1` on the u8 counter overflows
from_bigint_overflow(l) == l.e = U8Max

\* mutant of from_bigint_body: the exponent is not counted
from_bigint_body_nocount(l) == Loop(l.b, l.t, TruncDiv(l.t, 10), l.e)

\* the loop body; a release build wraps the u8 counter
from_bigint_body(l) == Loop(l.b, l.t, TruncDiv(l.t, 10), (l.e + 1) % U8Mod)

\* mutant of from_bigint_finish: the NBITS bound check is missing
from_bigint_finish_nobound(t, l) ==
    IF ~T_from(t, l.n) THEN Err("NumberTooBig") ELSE Ok(l.e, l.n)

\* from_bigint after the loop: conversion to T and the NBITS bound check
from_bigint_finish(t, l) ==
    IF ~T_from(t, l.n) THEN Err("NumberTooBig")
    ELSE IF l.n > test_high_bound(t) \/ l.n < test_low_bound(t)
    THEN Err("NumberTooBig")
    ELSE Ok(l.e, l.n)

----------------------------------------------------------------------------
(* rust_decimal::Decimal: a mantissa and a scale, value m / 10^scale *)

Dec(m, scale) == [m |-> m, scale |-> scale]

\* Decimal::MAX_SCALE of rust_decimal, the largest scale set_scale accepts
DecimalMaxScale == 28

\* the representation with the least scale: equal values have equal normal forms
RECURSIVE normalize(_)
normalize(d) ==
    IF d.m = 0 THEN Dec(0, 0)
    ELSE IF d.scale > 0 /\ d.m % 10 = 0 THEN normalize(Dec(d.m \div 10, d.scale - 1))
    ELSE d

\* == of Decimal compares values, not representations
DecEq(a, b) == normalize(a) = normalize(b)

\* Decimal::floor
floor(d) == Dec(d.m \div Pow10(d.scale), 0)

\* Decimal::to_i128: the integer part
dec_to_i128(d) == TruncDiv(d.m, Pow10(d.scale))

----------------------------------------------------------------------------
(* Construction from a decimal: from_decimal *)

Enter(done, v, l) == [done |-> done, val |-> v, loop |-> l]

\* mutant of from_decimal_enter: a scale above prec is a Precision error
from_decimal_enter_scalecheck(t, b, d, prec) ==
    IF d.m = 0 THEN Enter(TRUE, Ok(0, 0), NoLoop)
    ELSE IF d.scale > prec THEN Enter(TRUE, Err("Precision"), NoLoop)
    ELSE Enter(FALSE, NoVal, Loop(b, d.m, 0, prec - d.scale))

\* from_decimal up to the loop: the zero case, the exponent and the rescaling
\* of n, the Precision check; test = n.to_i128()
from_decimal_enter(t, b, d, prec) ==
    IF d.m = 0 THEN Enter(TRUE, Ok(0, 0), NoLoop)
    ELSE LET exponent == IF d.scale < prec THEN prec - d.scale ELSE 0
             newscale == IF d.scale < prec THEN 0 ELSE d.scale - prec
             n == Dec(d.m, newscale)
         IN  IF newscale > DecimalMaxScale THEN Enter(TRUE, Err("Demical"), NoLoop)
             ELSE IF ~DecEq(n, floor(n)) THEN Enter(TRUE, Err("Precision"), NoLoop)
             ELSE Enter(FALSE, NoVal, Loop(b, dec_to_i128(n), 0, exponent))

\* mutant of from_decimal_cond: only exact factors of ten are divided out
from_decimal_cond_exact(t, l) == TruncDiv(l.n, 10) * 10 = l.n

\* if test > test_high_bound || test < test_low_bound || next * 10 == test
from_decimal_cond(t, l) ==
    LET next == TruncDiv(l.n, 10) IN
    l.n > test_high_bound(t) \/ l.n < test_low_bound(t) \/ next * 10 = l.n

\* the loop body: exponent += 1; test = next
from_decimal_body(l) == Loop(l.b, TruncDiv(l.n, 10), 0, l.e + 1)

\* from_decimal after the loop: exponent as u8, T::from(test).unwrap()
from_decimal_finish(t, l) ==
    IF ~T_from(t, l.n) THEN Err("panic") ELSE Ok(l.e % U8Mod, l.n)

\* the loop of from_decimal run to its end; at test == 0 it never ends
RECURSIVE from_decimal_loop(_, _)
from_decimal_loop(t, l) ==
    IF from_decimal_cond(t, l)
    THEN IF l.n = 0
         THEN Err(IF l.b = "debug" THEN "panic" ELSE "hang")
         ELSE from_decimal_loop(t, from_decimal_body(l))
    ELSE from_decimal_finish(t, l)

\* from_decimal(d, prec) as one call
from_decimal(t, b, d, prec) ==
    LET r == from_decimal_enter(t, b, d, prec) IN
    IF r.done THEN r.val ELSE from_decimal_loop(t, r.loop)

----------------------------------------------------------------------------
(* Reconstruction: to_decimal *)

DecRes(st, d) == [st |-> st, d |-> d]

\* mutant of to_decimal: the scale is prec, not prec - exponent
to_decimal_scale_prec(t, f, prec) ==
    IF f.exponent < prec
    THEN IF prec > DecimalMaxScale
         THEN DecRes("panic", Dec(0, 0))
         ELSE DecRes("ok", Dec(f.significand, prec))
    ELSE DecRes("ok", Dec(f.significand * Pow10(f.exponent - prec), 0))

\* to_decimal
to_decimal(t, f, prec) ==
    IF f.exponent < prec
    THEN IF prec - f.exponent > DecimalMaxScale
         THEN DecRes("panic", Dec(0, 0))
         ELSE DecRes("ok", Dec(f.significand, prec - f.exponent))
    ELSE DecRes("ok", Dec(f.significand * Pow10(f.exponent - prec), 0))

----------------------------------------------------------------------------
(* Inputs *)

\* mantissas: the small ones and those around the NBITS bounds of the type
Mants(t) ==
    (-MaxMant..MaxMant)
    \cup ((test_low_bound(t) - LitSlack)..(test_low_bound(t) + LitSlack))
    \cup ((test_high_bound(t) - LitSlack)..(test_high_bound(t) + LitSlack))

\* integers m * 10^k given to from_bigint
BigInputs(t) ==
    {p[1] * Pow10(p[2]) : p \in {q \in Mants(t) \X (0..MaxZeros) : Fits(q[1], q[2])}}

\* decimals given to from_decimal
DecInputs(t) ==
    {Dec(p[1] * Pow10(p[2]), sc) :
        p \in {q \in Mants(t) \X (0..MaxDecZeros) : Fits(q[1], q[2])},
        sc \in 0..MaxScaleIn}

\* precisions: the small ones, one beyond the largest scale of a Decimal and
\* one beyond the u8 range of the exponent
Precs == (0..MaxPrec) \cup {DecimalMaxScale + 1, U8Mod + MaxPrec}

\* exponents of struct literals
LitExps(t) == {e \in 0..U8Max : e <= MaxLitExp \/ Abs(e - max_exp(t)) <= 1}

\* significands of struct literals: any value of T; 65536 is the significand
\* of test_encode
LitSigs(t) ==
    {s \in Mants(t) \cup {min_value(t), max_value(t), Pow2(16)} :
        T_from(t, s) /\ s >= -IntLimit}

\* the packed integer of the literal fits the model checker's integers
LitFits(t, e, s) == e + (Abs(s) \div Pow2(t.nbits)) + 1 <= IntLimit \div Pow2(t.nbits)

Bytes == 0..U8Max

EdgeBytes == {0, 1, U8Mod \div 2 - 1, U8Mod \div 2, U8Mod \div 2 + 1, U8Max}

\* buffers given to decode: every length from 0 to encode_len + 1 (the leading
\* bytes of the longest ones are small)
DecodeInputs(t) ==
    {<<>>} \cup {<<a>> : a \in Bytes}
    \cup {<<a, c>> : a \in EdgeBytes, c \in EdgeBytes}
    \cup (IF encode_len(t) >= 2
          THEN {<<a, c, d>> : a \in {0, 1}, c \in EdgeBytes, d \in EdgeBytes}
          ELSE {})
    \cup (IF encode_len(t) >= 4
          THEN {<<a, c, d, 0>> : a \in {0, 1}, c \in EdgeBytes, d \in {0, 1}}
               \cup {<<a, c, d, e, g>> : a \in {0}, c \in {0, 1},
                          d \in {U8Mod \div 2}, e \in {0}, g \in {0, 1}}
          ELSE {})

----------------------------------------------------------------------------
(* The state machine *)

Src(kind, n, d, prec, data) ==
    [kind |-> kind, n |-> n, d |-> d, prec |-> prec, data |-> data]

NoSrc == Src("none", 0, Dec(0, 0), 0, <<>>)

Out(op, st, v, b, d, prec) ==
    [op |-> op, st |-> st, v |-> v, b |-> b, d |-> d, prec |-> prec]

NoOut == Out("none", "none", 0, <<>>, Dec(0, 0), 0)

Twin(d, prec, res) == [d |-> d, prec |-> prec, res |-> res]

NoTwin == Twin(Dec(0, 0), 0, NoVal)

\* the iterator is not constructed
MergeIdle ==
    /\ mpc = "idle"
    /\ inputs = <<>>
    /\ ordering = "Asc"
    /\ mbuild = "none"
    /\ sources = <<>>
    /\ buffered = <<>>
    /\ last_elements = <<>>
    /\ emitted = <<>>
    /\ polls = <<>>
    /\ nones = 0
    /\ opc = "idle"
    /\ old_sources = <<>>
    /\ old_buffered = <<>>
    /\ old_last_elements = <<>>
    /\ old_emitted = <<>>

\* no Float864 is constructed
F864Idle ==
    /\ fpc = "idle"
    /\ fval = NoVal
    /\ fbytes = <<>>
    /\ fback = NoVal
    /\ fsrc = [d |-> [neg |-> FALSE, digs |-> <<>>, scale |-> 0], prec |-> 0]
    /\ fout = [st |-> "none", d |-> [neg |-> FALSE, digs |-> <<>>, scale |-> 0],
               prec |-> 0]

\* no Floats<T, NBITS> is constructed
FloatsIdle ==
    /\ ty = U8N(0)
    /\ pc = "idle"
    /\ src = NoSrc
    /\ loop = NoLoop
    /\ val = NoVal
    /\ out = NoOut
    /\ back = NoVal
    /\ twin = NoTwin

Init ==
    /\ ty \in Types
    /\ pc = "start"
    /\ src = NoSrc
    /\ loop = NoLoop
    /\ val = NoVal
    /\ out = NoOut
    /\ back = NoVal
    /\ twin = NoTwin
    /\ MergeIdle
    /\ F864Idle

\* Floats::from_bigint(bi) is called
FromBigint ==
    /\ pc = "start"
    /\ \E bi \in BigInputs(ty), b \in Builds :
        /\ src' = Src("bigint", bi, Dec(0, 0), 0, <<>>)
        /\ loop' = from_bigint_enter(b, bi)
    /\ pc' = "from_bigint"
    /\ UNCHANGED <<ty, val, out, back, twin, mergeVars, f864Vars>>

\* one iteration of the stripping loop of from_bigint; a debug build aborts
\* when the u8 exponent overflows
FromBigintLoop ==
    /\ pc = "from_bigint"
    /\ from_bigint_cond(ty, loop)
    /\ IF from_bigint_overflow(loop) /\ loop.b = "debug"
       THEN /\ val' = Err("panic")
            /\ loop' = NoLoop
            /\ pc' = "built"
       ELSE /\ loop' = from_bigint_body(loop)
            /\ UNCHANGED <<val, pc>>
    /\ UNCHANGED <<ty, src, out, back, twin, mergeVars, f864Vars>>

\* the loop of from_bigint ends and from_bigint returns
FromBigintReturn ==
    /\ pc = "from_bigint"
    /\ ~from_bigint_cond(ty, loop)
    /\ val' = from_bigint_finish(ty, loop)
    /\ loop' = NoLoop
    /\ pc' = "built"
    /\ UNCHANGED <<ty, src, out, back, twin, mergeVars, f864Vars>>

\* Floats::from_decimal(&d, prec) is called
FromDecimal ==
    /\ pc = "start"
    /\ \E d \in DecInputs(ty), prec \in Precs, b \in Builds :
        LET r == from_decimal_enter(ty, b, d, prec) IN
        /\ src' = Src("decimal", 0, d, prec, <<>>)
        /\ val' = r.val
        /\ loop' = r.loop
        /\ pc' = IF r.done THEN "built" ELSE "from_decimal"
    /\ UNCHANGED <<ty, out, back, twin, mergeVars, f864Vars>>

\* one iteration of the stripping loop of from_decimal.  With test == 0 the
\* condition next * 10 == test holds for ever: the loop only counts the u32
\* exponent up to its overflow, where a debug build aborts and a release build
\* wraps and goes on, so the call never returns
FromDecimalLoop ==
    /\ pc = "from_decimal"
    /\ from_decimal_cond(ty, loop)
    /\ IF loop.n = 0
       THEN /\ val' = Err(IF loop.b = "debug" THEN "panic" ELSE "hang")
            /\ loop' = NoLoop
            /\ pc' = "built"
       ELSE /\ loop' = from_decimal_body(loop)
            /\ UNCHANGED <<val, pc>>
    /\ UNCHANGED <<ty, src, out, back, twin, mergeVars, f864Vars>>

\* the loop of from_decimal ends and from_decimal returns
FromDecimalReturn ==
    /\ pc = "from_decimal"
    /\ ~from_decimal_cond(ty, loop)
    /\ val' = from_decimal_finish(ty, loop)
    /\ loop' = NoLoop
    /\ pc' = "built"
    /\ UNCHANGED <<ty, src, out, back, twin, mergeVars, f864Vars>>

\* Floats { exponent: e, significand: s }: both fields are public
Literal ==
    /\ pc = "start"
    /\ \E e \in LitExps(ty), s \in LitSigs(ty) :
        /\ LitFits(ty, e, s)
        /\ src' = Src("literal", 0, Dec(0, 0), 0, <<>>)
        /\ val' = Ok(e, s)
    /\ pc' = "built"
    /\ UNCHANGED <<ty, loop, out, back, twin, mergeVars, f864Vars>>

\* Floats::decode(data)
Decode ==
    /\ pc = "start"
    /\ \E data \in DecodeInputs(ty) :
        /\ src' = Src("bytes", 0, Dec(0, 0), 0, data)
        /\ val' = decode(ty, data)
    /\ pc' = "built"
    /\ UNCHANGED <<ty, loop, out, back, twin, mergeVars, f864Vars>>

\* v.to_bigint()
ToBigint ==
    /\ pc = "built"
    /\ val.st = "ok"
    /\ Fits(val.significand, val.exponent)
    /\ out' = Out("to_bigint", "ok", to_bigint(ty, val), <<>>, Dec(0, 0), 0)
    /\ pc' = "used"
    /\ UNCHANGED <<ty, src, loop, val, back, twin, mergeVars, f864Vars>>

\* v.to_encoded_int()
ToEncodedInt ==
    /\ pc = "built"
    /\ val.st = "ok"
    /\ LET r == to_encoded_int(ty, val) IN
        out' = Out("to_encoded_int", r.st, r.v, <<>>, Dec(0, 0), 0)
    /\ pc' = "used"
    /\ UNCHANGED <<ty, src, loop, val, back, twin, mergeVars, f864Vars>>

\* v.encode()
Encode ==
    /\ pc = "built"
    /\ val.st = "ok"
    /\ LET r == encode(ty, val) IN
        out' = Out("encode", r.st, 0, r.b, Dec(0, 0), 0)
    /\ pc' = "used"
    /\ UNCHANGED <<ty, src, loop, val, back, twin, mergeVars, f864Vars>>

\* v.to_decimal(prec)
ToDecimal ==
    /\ pc = "built"
    /\ val.st = "ok"
    /\ \E prec \in Precs :
        /\ val.exponent >= prec => Fits(val.significand, val.exponent - prec)
        /\ LET r == to_decimal(ty, val, prec) IN
            out' = Out("to_decimal", r.st, 0, <<>>, r.d, prec)
    /\ pc' = "used"
    /\ UNCHANGED <<ty, src, loop, val, back, twin, mergeVars, f864Vars>>

\* Floats::decode(&v.encode())
DecodeBack ==
    /\ pc = "used"
    /\ out.op = "encode"
    /\ out.st = "ok"
    /\ back' = decode(ty, out.b)
    /\ pc' = "done"
    /\ UNCHANGED <<ty, src, loop, val, out, twin, mergeVars, f864Vars>>

\* the decimals d of scale sc with d * 10^prec == m
DecimalsOf(m, sc, prec) ==
    IF prec >= sc
    THEN IF m % Pow10(prec - sc) = 0 THEN {Dec(m \div Pow10(prec - sc), sc)} ELSE {}
    ELSE IF Fits(m, sc - prec) THEN {Dec(m * Pow10(sc - prec), sc)} ELSE {}

\* Floats::from_decimal(&d, prec) is called with a decimal and a prec whose
\* product d * 10^prec is the integer that was given to from_bigint
FromDecimalOfBigint ==
    /\ pc = "built"
    /\ src.kind = "bigint"
    /\ \E sc \in 0..MaxScaleIn, prec \in 0..MaxPrec, b \in Builds :
          \E d \in DecimalsOf(src.n, sc, prec) :
             twin' = Twin(d, prec, from_decimal(ty, b, d, prec))
    /\ pc' = "agreed"
    /\ UNCHANGED <<ty, src, loop, val, out, back, mergeVars, f864Vars>>

Next ==
    \/ FromBigint
    \/ FromBigintLoop
    \/ FromBigintReturn
    \/ FromDecimal
    \/ FromDecimalLoop
    \/ FromDecimalReturn
    \/ Literal
    \/ Decode
    \/ ToBigint
    \/ ToEncodedInt
    \/ Encode
    \/ ToDecimal
    \/ DecodeBack
    \/ FromDecimalOfBigint

Spec == Init /\ [][Next]_vars

----------------------------------------------------------------------------
(* MergeSortIterator: src/helper.rs *)

\* most sources given to the constructor
MaxSources == 3
\* most elements of one source
MaxSrcLen == 2
\* the keys the comparator orders are 1..MaxKey
MaxKey == 2
\* next() is called this often after its first None
MaxNones == 2

\* an element of T: the comparator sees its key only, src and pos say where it
\* comes from
Elem(key, i, j) == [key |-> key, src |-> i, pos |-> j]

\* the comparator F: Fn(&T, &T) -> Ordering
compare(x, y) ==
    IF x.key < y.key THEN "Less" ELSE IF x.key > y.key THEN "Greater" ELSE "Equal"

\* the keys of a BTreeMap from index i on, in ascending order
RECURSIVE keys_from(_, _)
keys_from(S, i) ==
    IF S = {} THEN <<>>
    ELSE IF i \in S THEN <<i>> \o keys_from(S \ {i}, i + 1)
    ELSE keys_from(S, i + 1)

\* BTreeMap::iter: the keys in ascending order
iter(m) == keys_from(DOMAIN m, 0)

\* mutant of remove: the entry stays in the map
remove_noop(m, idx) == m

\* BTreeMap::remove
remove(m, idx) == [k \in (DOMAIN m) \ {idx} |-> m[k]]

\* mutant of insert: the map keeps its old entry
insert_noop(m, idx, x) == m

\* BTreeMap::insert
insert(m, idx, x) == [k \in (DOMAIN m) \cup {idx} |-> IF k = idx THEN x ELSE m[k]]

\* Iterator::min_by: reduce(|x, y| match compare(x, y) { Greater => y, _ => x })
RECURSIVE min_by(_, _, _)
min_by(m, acc, ks) ==
    IF ks = <<>> THEN acc
    ELSE min_by(m,
                IF compare(m[acc], m[Head(ks)]) = "Greater" THEN Head(ks) ELSE acc,
                Tail(ks))

\* Iterator::max_by: reduce(|x, y| match compare(x, y) { Greater => x, _ => y })
RECURSIVE max_by(_, _, _)
max_by(m, acc, ks) ==
    IF ks = <<>> THEN acc
    ELSE max_by(m,
                IF compare(m[acc], m[Head(ks)]) = "Greater" THEN acc ELSE Head(ks),
                Tail(ks))

\* mutant of arg_cmp_by: min_by and max_by are exchanged
arg_cmp_by_swapped(buf, ord) ==
    LET ks == iter(buf) IN
    IF ord = "Asc" THEN max_by(buf, Head(ks), Tail(ks))
    ELSE min_by(buf, Head(ks), Tail(ks))

\* arg_cmp_by: the index of the most `ordering` element of buffered
arg_cmp_by(buf, ord) ==
    LET ks == iter(buf) IN
    IF ord = "Asc" THEN min_by(buf, Head(ks), Tail(ks))
    ELSE max_by(buf, Head(ks), Tail(ks))

\* the positions of the sources whose first next() is Some, in order
nonempty(srcs) == SelectSeq([i \in 1..Len(srcs) |-> i], LAMBDA i : Len(srcs[i]) > 0)

\* the lists of sources given to the constructor: every list of at most
\* MaxSources sequences of at most MaxSrcLen keys, sorted or not
KeySeqs == UNION {[1..n -> 1..MaxKey] : n \in 0..MaxSrcLen}

SourceLists ==
    {[i \in 1..Len(l) |-> [j \in 1..Len(l[i]) |-> Elem(l[i][j], i, j)]] :
        l \in UNION {[1..n -> KeySeqs] : n \in 0..MaxSources}}

InitMerge ==
    /\ mpc = "new"
    /\ inputs = <<>>
    /\ ordering = "Asc"
    /\ mbuild = "none"
    /\ sources = <<>>
    /\ buffered = <<>>
    /\ last_elements = <<>>
    /\ emitted = <<>>
    /\ polls = <<>>
    /\ nones = 0
    /\ opc = "new"
    /\ old_sources = <<>>
    /\ old_buffered = <<>>
    /\ old_last_elements = <<>>
    /\ old_emitted = <<>>
    /\ FloatsIdle
    /\ F864Idle

\* MergeSortIterator::compare_by(srcs, ord, compare): every source is polled
\* once, the empty ones are dropped and the others numbered from 0
compare_by ==
    /\ mpc = "new"
    /\ \E srcs \in SourceLists, ord \in {"Asc", "Desc"}, b \in Builds :
        LET ne == nonempty(srcs) IN
        /\ inputs' = srcs
        /\ ordering' = ord
        /\ mbuild' = b
        /\ buffered' = [k \in 0..(Len(ne) - 1) |-> Head(srcs[ne[k + 1]])]
        /\ sources' = [k \in 0..(Len(ne) - 1) |->
                          [orig |-> ne[k + 1], rest |-> Tail(srcs[ne[k + 1]])]]
        /\ polls' = [i \in 1..Len(srcs) |-> 1]
    /\ last_elements' = <<>>
    /\ emitted' = <<>>
    /\ nones' = 0
    /\ mpc' = "iter"
    /\ UNCHANGED <<oldVars, floatsVars, f864Vars>>

\* continuation_check(idx, new), debug builds: the element is stored only when
\* last_elements already has the index
continuation_check(last, idx, new, ord) ==
    IF idx \in DOMAIN last
    THEN [last |-> insert(last, idx, new),
          panic |-> \/ (compare(last[idx], new) = "Less" /\ ord = "Desc")
                    \/ (compare(last[idx], new) = "Greater" /\ ord = "Asc")]
    ELSE [last |-> last, panic |-> FALSE]

\* Iterator::next: arg_cmp_by, swap_next and, in a debug build,
\* continuation_check; None when buffered is empty
next ==
    /\ mpc \in {"iter", "end"}
    /\ IF DOMAIN buffered # {}
       THEN LET idx == arg_cmp_by(buffered, ordering)
                s == sources[idx]
                ret == buffered[idx]
                chk == IF mbuild = "debug"
                       THEN continuation_check(last_elements, idx, ret, ordering)
                       ELSE [last |-> last_elements, panic |-> FALSE]
            IN  /\ polls' = [polls EXCEPT ![s.orig] = @ + 1]
                /\ IF s.rest # <<>>
                   THEN /\ buffered' = insert(buffered, idx, Head(s.rest))
                        /\ sources' = [sources EXCEPT ![idx].rest = Tail(s.rest)]
                   ELSE /\ buffered' = remove(buffered, idx)
                        /\ sources' = sources
                /\ last_elements' = chk.last
                /\ IF chk.panic
                   THEN mpc' = "panic" /\ emitted' = emitted
                   ELSE mpc' = mpc /\ emitted' = Append(emitted, ret)
                /\ nones' = nones
       ELSE /\ nones < MaxNones + 1
            /\ nones' = nones + 1
            /\ mpc' = "end"
            /\ UNCHANGED <<sources, buffered, last_elements, emitted, polls>>
    /\ UNCHANGED <<inputs, ordering, mbuild, oldVars, floatsVars, f864Vars>>

\* Option<T>
None == [some |-> FALSE, v |-> Elem(0, 0, 0)]

Some(x) == [some |-> TRUE, v |-> x]

\* old_impl::MergeSortIterator::new(sources, ordering), given the sources and
\* the ordering the BTreeMap-based iterator was given: every source is kept
\* under its position and polled once
old_new ==
    /\ mpc # "new"
    /\ opc = "new"
    /\ old_buffered' = [i \in 1..Len(inputs) |->
                            IF inputs[i] # <<>> THEN Some(Head(inputs[i])) ELSE None]
    /\ old_sources' = [i \in 1..Len(inputs) |->
                           IF inputs[i] # <<>> THEN Tail(inputs[i]) ELSE <<>>]
    /\ old_last_elements' = [i \in 1..Len(inputs) |-> None]
    /\ old_emitted' = <<>>
    /\ opc' = "iter"
    /\ UNCHANGED <<mpc, inputs, ordering, mbuild, sources, buffered, last_elements,
                   emitted, polls, nones, floatsVars, f864Vars>>

\* mutant of old_arg_cmp: among equal greatest elements Desc takes the first
old_arg_cmp_first(buf, ord) ==
    LET ks == SelectSeq([i \in 1..Len(buf) |-> i], LAMBDA i : buf[i].some)
        m == [i \in 1..Len(buf) |-> buf[i].v]
    IN  IF ord = "Asc" THEN min_by(m, Head(ks), Tail(ks))
        ELSE CHOOSE i \in 1..Len(buf) :
                /\ buf[i].some
                /\ \A j \in 1..Len(buf) :
                      buf[j].some => \/ m[j].key < m[i].key
                                     \/ (m[j].key = m[i].key /\ i <= j)

\* old_impl arg_cmp: min_by or max_by over the entries that are Some, in the
\* order of their positions
old_arg_cmp(buf, ord) ==
    LET ks == SelectSeq([i \in 1..Len(buf) |-> i], LAMBDA i : buf[i].some)
        m == [i \in 1..Len(buf) |-> buf[i].v]
    IN  IF ord = "Asc" THEN min_by(m, Head(ks), Tail(ks))
        ELSE max_by(m, Head(ks), Tail(ks))

\* old_impl Iterator::next: the debug check compares with the element the same
\* source returned before and stores the new one afterwards
old_next ==
    /\ opc \in {"iter", "end"}
    /\ IF \E i \in 1..Len(old_buffered) : old_buffered[i].some
       THEN LET idx == old_arg_cmp(old_buffered, ordering)
                ret == old_buffered[idx].v
                last == old_last_elements[idx]
                panic == /\ mbuild = "debug"
                         /\ last.some
                         /\ \/ (compare(last.v, ret) = "Less" /\ ordering = "Desc")
                            \/ (compare(last.v, ret) = "Greater" /\ ordering = "Asc")
            IN  /\ IF old_sources[idx] # <<>>
                   THEN /\ old_buffered' =
                              [old_buffered EXCEPT ![idx] = Some(Head(old_sources[idx]))]
                        /\ old_sources' = [old_sources EXCEPT ![idx] = Tail(@)]
                   ELSE /\ old_buffered' = [old_buffered EXCEPT ![idx] = None]
                        /\ old_sources' = old_sources
                /\ IF panic
                   THEN /\ opc' = "panic"
                        /\ UNCHANGED <<old_last_elements, old_emitted>>
                   ELSE /\ opc' = opc
                        /\ old_last_elements' =
                              IF mbuild = "debug"
                              THEN [old_last_elements EXCEPT ![idx] = Some(ret)]
                              ELSE old_last_elements
                        /\ old_emitted' = Append(old_emitted, ret)
       ELSE /\ opc' = "end"
            /\ UNCHANGED <<old_sources, old_buffered, old_last_elements, old_emitted>>
    /\ UNCHANGED <<mpc, inputs, ordering, mbuild, sources, buffered, last_elements,
                   emitted, polls, nones, floatsVars, f864Vars>>

NextMerge ==
    \/ compare_by
    \/ next
    \/ old_new
    \/ old_next

SpecMerge == InitMerge /\ [][NextMerge]_vars

----------------------------------------------------------------------------
(* Float864: src/types/float864.rs.  The u64 significand is held as four    *)
(* 16-bit limbs, the most significant first.                                *)

\* the length of the encoding: the exponent byte and the 8 bytes of the u64
f864_encode_len == 9

U16Mod == Pow2(16)

\* u8::to_be_bytes
u8_to_be_bytes(e) == <<e>>

\* u8::from_be_bytes
u8_from_be_bytes(b) == b[1]

\* mutant of u64_to_be_bytes: the bytes are written least significant first
u64_to_le_bytes(x) ==
    <<x[4] % U8Mod, x[4] \div U8Mod, x[3] % U8Mod, x[3] \div U8Mod,
      x[2] % U8Mod, x[2] \div U8Mod, x[1] % U8Mod, x[1] \div U8Mod>>

\* u64::to_be_bytes
u64_to_be_bytes(x) ==
    <<x[1] \div U8Mod, x[1] % U8Mod, x[2] \div U8Mod, x[2] % U8Mod,
      x[3] \div U8Mod, x[3] % U8Mod, x[4] \div U8Mod, x[4] % U8Mod>>

\* u64::from_be_bytes
u64_from_be_bytes(b) ==
    <<b[1] * U8Mod + b[2], b[3] * U8Mod + b[4],
      b[5] * U8Mod + b[6], b[7] * U8Mod + b[8]>>

\* Float864::encode
f864_encode(f) == u8_to_be_bytes(f.exponent) \o u64_to_be_bytes(f.significand)

\* Float864::decode: the slices data[0..1] and data[1..9] abort on a buffer
\* that is too short; bytes after the ninth are not read
f864_decode(data) ==
    IF Len(data) < 1 THEN Err("panic")
    ELSE IF Len(data) < f864_encode_len THEN Err("panic")
    ELSE Ok(u8_from_be_bytes(SubSeq(data, 1, 1)),
            u64_from_be_bytes(SubSeq(data, 2, f864_encode_len)))

----------------------------------------------------------------------------
(* Float864 and Decimal.  A Decimal is a sign, a 96-bit mantissa and a scale   *)
(* of at most 28; the mantissa is held as its decimal digits, the most         *)
(* significant first, the empty sequence for zero.                             *)

BigDec(neg, digs, scale) == [neg |-> neg, digs |-> digs, scale |-> scale]

BigZero == BigDec(FALSE, <<>>, 0)

\* the largest mantissa of a Decimal: 2^96 - 1
DecimalMaxDigits ==
    <<7, 9, 2, 2, 8, 1, 6, 2, 5, 1, 4, 2, 6, 4, 3, 3, 7, 5, 9, 3, 5, 4, 3, 9, 5,
      0, 3, 3, 5>>

\* u64::MAX / 4 = 2^62 - 1 = 4611686018427387903
U64MaxDiv4Digits == <<4, 6, 1, 1, 6, 8, 6, 0, 1, 8, 4, 2, 7, 3, 8, 7, 9, 0, 3>>

\* a < b for mantissas without leading zeros
DigLess(a, b) ==
    \/ Len(a) < Len(b)
    \/ /\ Len(a) = Len(b)
       /\ \E i \in 1..Len(a) : a[i] < b[i] /\ \A j \in 1..(i - 1) : a[j] = b[j]

\* the same value with the trailing zeros of the fraction removed
RECURSIVE canon(_)
canon(x) ==
    IF x.digs = <<>> THEN BigZero
    ELSE IF x.scale > 0 /\ x.digs[Len(x.digs)] = 0
    THEN canon(BigDec(x.neg, SubSeq(x.digs, 1, Len(x.digs) - 1), x.scale - 1))
    ELSE x

\* Decimal == Decimal compares the values
BigDecEq(x, y) == canon(x) = canon(y)

\* a result of Decimal arithmetic: a value, or the abort of an overflow
BigRes(st, d) == [st |-> st, d |-> d]

\* Decimal::new(10, 0).pow(k): 10^k, an overflow abort beyond 10^28
pow_ten(k) ==
    IF k > DecimalMaxScale THEN BigRes("panic", BigZero)
    ELSE BigRes("ok", BigDec(FALSE, <<1>> \o [i \in 1..k |-> 0], 0))

\* x * 10^k: the exact product when a Decimal can hold it (the scale is reduced
\* over trailing zeros when the mantissa passes 96 bits), an overflow abort
\* otherwise
mul_pow_ten(x, k) ==
    LET r == canon(BigDec(x.neg, x.digs \o [i \in 1..k |-> 0], x.scale)) IN
    IF DigLess(DecimalMaxDigits, r.digs) THEN BigRes("panic", BigZero)
    ELSE BigRes("ok", r)

\* x / 10^k for an integer x and k <= 28: exact
div_pow_ten(x, k) == canon(BigDec(x.neg, x.digs, x.scale + k))

\* n != n.floor(): the value has a fraction
has_fraction(x) == canon(x).scale > 0

\* the 16-bit limbs of 10 * x + d, and the carry out of the u64
mul10_add(x, d) ==
    LET t4 == x[4] * 10 + d
        t3 == x[3] * 10 + t4 \div U16Mod
        t2 == x[2] * 10 + t3 \div U16Mod
        t1 == x[1] * 10 + t2 \div U16Mod
    IN  [limbs |-> <<t1 % U16Mod, t2 % U16Mod, t3 % U16Mod, t4 % U16Mod>>,
         carry |-> t1 \div U16Mod]

\* str::parse::<u64> of a string of digits: the value, or PosOverflow
RECURSIVE parse_u64(_, _)
parse_u64(digs, acc) ==
    IF digs = <<>> THEN Ok(0, acc)
    ELSE LET r == mul10_add(acc, Head(digs)) IN
         IF r.carry # 0 THEN Err("ParseInt") ELSE parse_u64(Tail(digs), r.limbs)

\* quotient and remainder of a u64 by 10
divmod10(x) ==
    LET t1 == x[1]
        t2 == (t1 % 10) * U16Mod + x[2]
        t3 == (t2 % 10) * U16Mod + x[3]
        t4 == (t3 % 10) * U16Mod + x[4]
    IN  [q |-> <<t1 \div 10, t2 \div 10, t3 \div 10, t4 \div 10>>, r |-> t4 % 10]

\* the decimal digits of a u64
RECURSIVE u64_digits(_)
u64_digits(x) ==
    IF x = <<0, 0, 0, 0>> THEN <<>>
    ELSE Append(u64_digits(divmod10(x).q), divmod10(x).r)

\* the magnitude of a negative i64 given by its bits: 2^64 - x
u64_neg(x) ==
    LET t4 == (U16Mod - 1 - x[4]) + 1
        t3 == (U16Mod - 1 - x[3]) + t4 \div U16Mod
        t2 == (U16Mod - 1 - x[2]) + t3 \div U16Mod
        t1 == (U16Mod - 1 - x[1]) + t2 \div U16Mod
    IN  <<t1 % U16Mod, t2 % U16Mod, t3 % U16Mod, t4 % U16Mod>>

\* Decimal::new(significand as i64, 0): a u64 of 2^63 or more becomes negative
decimal_new_i64(x) ==
    IF x[1] >= U16Mod \div 2
    THEN BigDec(TRUE, u64_digits(u64_neg(x)), 0)
    ELSE canon(BigDec(FALSE, u64_digits(x), 0))

\* Float864::to_decimal(prec):
\* Decimal::new(significand as i64, 0) * 10.pow(exponent) / 10.pow(prec)
f864_to_decimal(f, prec) ==
    LET a == decimal_new_i64(f.significand)
        p == pow_ten(f.exponent)
        m == mul_pow_ten(a, f.exponent)
        q == pow_ten(prec)
    IN  IF p.st # "ok" THEN BigRes("panic", BigZero)
        ELSE IF m.st # "ok" THEN BigRes("panic", BigZero)
        ELSE IF q.st # "ok" THEN BigRes("panic", BigZero)
        ELSE BigRes("ok", div_pow_ten(m.d, prec))

\* the loop of Float864::from_decimal: while n / 10 is an integer,
\* exponent += 1 and n = n / 10
RECURSIVE f864_strip(_, _)
f864_strip(n, exponent) ==
    IF has_fraction(div_pow_ten(n, 1)) THEN [n |-> n, exponent |-> exponent]
    ELSE f864_strip(div_pow_ten(n, 1), exponent + 1)

\* mutant of f864_finish: the bound u64::MAX / 4 is not checked
f864_finish_nobound(l) ==
    IF l.n.neg THEN Err("ParseInt")
    ELSE LET r == parse_u64(l.n.digs, <<0, 0, 0, 0>>) IN
         IF r.st # "ok" THEN r ELSE Ok(l.exponent, r.significand)

\* Float864::from_decimal after the loop: the bound u64::MAX / 4, then the u64
\* parsed from the string of n.floor(), which fails on the '-' of a negative n
f864_finish(l) ==
    IF ~l.n.neg /\ DigLess(U64MaxDiv4Digits, l.n.digs) THEN Err("InvalidPrecision")
    ELSE IF l.n.neg THEN Err("ParseInt")
    ELSE LET r == parse_u64(l.n.digs, <<0, 0, 0, 0>>) IN
         IF r.st # "ok" THEN r ELSE Ok(l.exponent, r.significand)

\* Float864::from_decimal(d, prec)
f864_from_decimal(d, prec) ==
    IF canon(d) = BigZero THEN Ok(0, <<0, 0, 0, 0>>)
    ELSE LET exp == pow_ten(prec)
             n == mul_pow_ten(d, prec)
         IN  IF exp.st # "ok" THEN Err("panic")
             ELSE IF n.st # "ok" THEN Err("panic")
             ELSE IF has_fraction(n.d) THEN Err("Precision")
             ELSE f864_finish(f864_strip(n.d, 0))

\* mantissas of the decimals given to from_decimal: small ones, those around
\* u64::MAX / 4, 10^28 and the largest mantissa
Mants864 ==
    {<<>>, <<1>>, <<5>>, <<1, 2>>, <<1, 2, 0>>, <<1, 0, 0>>, <<1, 2, 3, 4, 5, 6>>,
     U64MaxDiv4Digits,
     [U64MaxDiv4Digits EXCEPT ![Len(U64MaxDiv4Digits)] = 4],
     [U64MaxDiv4Digits EXCEPT ![Len(U64MaxDiv4Digits) - 1] = 1,
                              ![Len(U64MaxDiv4Digits)] = 0],
     U64MaxDiv4Digits \o <<0>>,
     U64MaxDiv4Digits \o <<0, 0, 0, 0, 0, 0>>,
     <<1>> \o [i \in 1..DecimalMaxScale |-> 0],
     DecimalMaxDigits}

Scales864 == {0, 1, 5, DecimalMaxScale}

Decs864 == {BigDec(neg, m, sc) : neg \in BOOLEAN, m \in Mants864, sc \in Scales864}

Precs864 == {0, 1, 5, 18, DecimalMaxScale, DecimalMaxScale + 1}

\* limbs and exponents of the struct literals
Limbs864 == {0, 1, U8Max, U8Mod, U16Mod - 1}

Sigs864 == Limbs864 \X Limbs864 \X Limbs864 \X Limbs864

Exps864 == {0, 1, U8Max - 1, U8Max}

\* buffers given to decode: every length from 0 to one past the encoding, all
\* bytes zero but one
Bufs864 ==
    {[i \in 1..n |-> IF i = k THEN b ELSE 0] :
        n \in 0..(f864_encode_len + 1), k \in 1..(f864_encode_len + 1), b \in EdgeBytes}

Init864 ==
    /\ fpc = "start"
    /\ fval = NoVal
    /\ fbytes = <<>>
    /\ fback = NoVal
    /\ fsrc = [d |-> BigZero, prec |-> 0]
    /\ fout = [st |-> "none", d |-> BigZero, prec |-> 0]
    /\ FloatsIdle
    /\ MergeIdle

\* Float864 { exponent: e, significand: s }: both fields are public
F864Literal ==
    /\ fpc = "start"
    /\ \E e \in Exps864, s \in Sigs864 : fval' = Ok(e, s)
    /\ fpc' = "built"
    /\ UNCHANGED <<fbytes, fback, fsrc, fout, floatsVars, mergeVars>>

\* Float864::decode(data)
F864Decode ==
    /\ fpc = "start"
    /\ \E data \in Bufs864 :
        /\ fbytes' = data
        /\ fval' = f864_decode(data)
    /\ fpc' = "decoded"
    /\ UNCHANGED <<fback, fsrc, fout, floatsVars, mergeVars>>

\* f.encode()
F864Encode ==
    /\ fpc = "built"
    /\ fbytes' = f864_encode(fval)
    /\ fpc' = "encoded"
    /\ UNCHANGED <<fval, fback, fsrc, fout, floatsVars, mergeVars>>

\* Float864::decode(&f.encode())
F864DecodeBack ==
    /\ fpc = "encoded"
    /\ fback' = f864_decode(fbytes)
    /\ fpc' = "done"
    /\ UNCHANGED <<fval, fbytes, fsrc, fout, floatsVars, mergeVars>>

\* Float864::from_decimal(&d, prec)
F864FromDecimal ==
    /\ fpc = "start"
    /\ \E d \in Decs864, prec \in Precs864 :
        /\ fsrc' = [d |-> d, prec |-> prec]
        /\ fval' = f864_from_decimal(d, prec)
    /\ fpc' = "constructed"
    /\ UNCHANGED <<fbytes, fback, fout, floatsVars, mergeVars>>

\* f.to_decimal(prec)
F864ToDecimal ==
    /\ fpc \in {"built", "constructed"}
    /\ fval.st = "ok"
    /\ \E prec \in Precs864 :
        LET r == f864_to_decimal(fval, prec) IN
        fout' = [st |-> r.st, d |-> r.d, prec |-> prec]
    /\ fpc' = "converted"
    /\ UNCHANGED <<fval, fbytes, fback, fsrc, floatsVars, mergeVars>>

Next864 ==
    \/ F864Literal
    \/ F864Decode
    \/ F864Encode
    \/ F864DecodeBack
    \/ F864FromDecimal
    \/ F864ToDecimal

Spec864 == Init864 /\ [][Next864]_vars

----------------------------------------------------------------------------
(* Vocabulary of the properties *)

\* max_exponent(NBITS) = 2^(8 - NBITS mod 8) - 1
MaxExponent(t) == Pow2(8 - (t.nbits % 8)) - 1

\* the significand range of NBITS bits: [-2^(NBITS-1), 2^(NBITS-1) - 1] for a
\* signed T, [0, 2^NBITS - 1] for an unsigned T
SigInRange(t, s) ==
    IF t.signed
    THEN -Pow2(t.nbits - 1) <= s /\ s <= Pow2(t.nbits - 1) - 1
    ELSE 0 <= s /\ s <= Pow2(t.nbits) - 1

\* x with every exact factor of ten divided out
RECURSIVE StripZeros(_)
StripZeros(x) == IF x # 0 /\ x % 10 = 0 THEN StripZeros(x \div 10) ELSE x

\* the number of trailing decimal zeros of x
RECURSIVE CountZeros(_)
CountZeros(x) == IF x # 0 /\ x % 10 = 0 THEN 1 + CountZeros(x \div 10) ELSE 0

\* the integer d * 10^prec is DecTest0 * 10^DecExp0 when DecIsInt
DecIsInt(d, prec) == d.scale <= prec \/ d.m % Pow10(d.scale - prec) = 0

DecExp0(d, prec) == IF d.scale < prec THEN prec - d.scale ELSE 0

DecTest0(d, prec) == IF d.scale < prec THEN d.m ELSE d.m \div Pow10(d.scale - prec)

\* a value in the sense of the data model: exponent and significand in their
\* ranges, zero only as {significand: 0, exponent: 0}
ValidValue(t, f) ==
    /\ f.st = "ok"
    /\ f.exponent <= MaxExponent(t)
    /\ SigInRange(t, f.significand)
    /\ (f.significand = 0 => f.exponent = 0)

\* a constructor has returned
Returned(kind) == pc = "built" /\ src.kind = kind

----------------------------------------------------------------------------
(* C1: round trip, decode(encode(v)) has the significand and the exponent of v *)
(* for every valid v, the signed lower bound -2^(NBITS-1) included.            *)
(* The code decodes the bit pattern 2^(NBITS-1) as +2^(NBITS-1).               *)

C1_RoundTrip ==
    /\ (pc \in {"used", "done"} /\ out.op = "encode" /\ ValidValue(ty, val))
          => out.st = "ok"
    /\ (pc = "done" /\ ValidValue(ty, val))
          => /\ back.st = "ok"
             /\ back.significand = val.significand
             /\ back.exponent = val.exponent

----------------------------------------------------------------------------
(* C2: decimal round trip.  As stated, for every d and prec for which          *)
(* from_decimal succeeds, to_decimal(prec) of the result equals d.             *)

\* to_decimal(prec) was applied to the result of from_decimal(d, prec)
DecimalRoundTripDone ==
    /\ pc = "used"
    /\ src.kind = "decimal"
    /\ out.op = "to_decimal"
    /\ out.prec = src.prec

ExactResult(f, d, prec) ==
    IF d.m = 0 THEN f.significand = 0
    ELSE /\ DecIsInt(d, prec)
         /\ f.significand # 0
         /\ StripZeros(f.significand) = StripZeros(DecTest0(d, prec))
         /\ f.exponent + CountZeros(f.significand)
               = DecExp0(d, prec) + CountZeros(DecTest0(d, prec))

----------------------------------------------------------------------------
(* C3: overflow rejection.  As stated, a constructor whose input, with every   *)
(* exact factor of ten divided out, lies outside the NBITS bound returns an    *)
(* error, and no constructor returns a value that differs from its input.      *)

\* from_decimal entered its loop with the integer DecTest0 * 10^DecExp0
DecimalLooped == src.d.m # 0 /\ DecIsInt(src.d, src.prec)

StopsAt(t, x, k) ==
    /\ SigInRange(t, TruncDiv(x, Pow10(k)))
    /\ TruncDiv(x, Pow10(k)) % 10 # 0

----------------------------------------------------------------------------
(* C4: exponent bound, every value returned by from_decimal or from_bigint     *)
(* has exponent <= max_exponent(NBITS).  The loop of from_bigint runs while    *)
(* exponent <= max_exp and so reaches max_exp + 1; from_decimal has no bound.  *)

C4_ExponentBound ==
    ((Returned("bigint") \/ Returned("decimal")) /\ val.st = "ok")
        => val.exponent <= MaxExponent(ty)

----------------------------------------------------------------------------
(* C5: zero canonicalization, from_decimal(0, prec) and from_bigint(0) return  *)
(* {significand: 0, exponent: 0}.  from_bigint(0) strips zeros off 0 until     *)
(* the exponent passes max_exp.                                                *)

C5_ZeroCanonical ==
    ((Returned("bigint") /\ src.n = 0) \/ (Returned("decimal") /\ src.d.m = 0))
        => val = Ok(0, 0)

----------------------------------------------------------------------------
(* C6: exactness of the integer path, from_bigint(n).to_bigint() == n whenever *)
(* from_bigint(n) succeeds.                                                    *)

----------------------------------------------------------------------------
(* C7: exponent maximality, the significand of a nonzero value returned by     *)
(* from_decimal or from_bigint is not divisible by 10 unless                   *)
(* exponent == max_exponent(NBITS).  from_bigint stops at max_exp + 1.         *)

C7_ExponentMaximal ==
    ((Returned("bigint") \/ Returned("decimal"))
        /\ val.st = "ok" /\ val.significand # 0 /\ val.significand % 10 = 0)
        => val.exponent = MaxExponent(ty)

----------------------------------------------------------------------------
(* C8: significand range, every value returned by from_decimal or from_bigint  *)
(* has its significand in the NBITS range of T, and from_bigint returns        *)
(* NumberTooBig for an input whose stripped magnitude is outside that range.   *)

----------------------------------------------------------------------------
(* C9: sign rule of decode for a signed T: with value the big-endian integer   *)
(* of the input and bits = value mod 2^NBITS, the significand is               *)
(* bits - 2^NBITS when bit NBITS-1 of bits is set (bits == 2^(NBITS-1)         *)
(* included) and bits otherwise; the exponent is value >> NBITS.  The code     *)
(* compares bits <= 2^(NBITS-1) and decodes 2^(NBITS-1) as positive.           *)

C9_DecodeSign ==
    (Returned("bytes") /\ ty.signed /\ val.st = "ok")
        => LET value == from_bytes_be(src.data)
               bits == value % Pow2(ty.nbits)
           IN  /\ val.significand =
                     IF bits >= Pow2(ty.nbits - 1) THEN bits - Pow2(ty.nbits) ELSE bits
               /\ val.exponent = value \div Pow2(ty.nbits)

----------------------------------------------------------------------------
(* C10: packing formula.  As stated, for every value with                      *)
(* exponent <= max_exponent(NBITS) and significand in the NBITS range,         *)
(* to_encoded_int is exponent * 2^NBITS + (significand mod 2^NBITS).           *)

\* to_encoded_int was applied to a value with both fields in range
PackedInRange ==
    /\ pc = "used"
    /\ out.op = "to_encoded_int"
    /\ val.exponent <= MaxExponent(ty)
    /\ SigInRange(ty, val.significand)

\* C10 as stated: violated by a zero significand with a nonzero exponent
C10_Packing ==
    PackedInRange
        => /\ out.st = "ok"
           /\ out.v = val.exponent * Pow2(ty.nbits) + (val.significand % Pow2(ty.nbits))

\* C10 amended: the formula holds for every such value with a nonzero
\* significand; for a zero significand the result is 0 whatever the exponent
C10_PackingNonzero ==
    PackedInRange
        => /\ out.st = "ok"
           /\ out.v >= 0
           /\ out.v = IF val.significand = 0 THEN 0
                      ELSE val.exponent * Pow2(ty.nbits)
                               + (val.significand % Pow2(ty.nbits))

\* a negative significand under a nonzero exponent was packed
C10_Witness ==
    /\ PackedInRange
    /\ val.significand < 0
    /\ val.exponent > 0
    /\ out.st = "ok"
    /\ out.v = val.exponent * Pow2(ty.nbits) + Pow2(ty.nbits) + val.significand

----------------------------------------------------------------------------
(* C11: to_encoded_int returns ExponentTooBig if and only if                   *)
(* exponent > max_exponent(NBITS), so never for a byte-aligned NBITS; the      *)
(* check comes before the zero shortcut, so a zero significand with an         *)
(* oversized exponent is rejected as well.                                     *)

C11_ExponentTooBig ==
    (pc = "used" /\ out.op = "to_encoded_int")
        => /\ out.st \in {"ok", "ExponentTooBig"}
           /\ (out.st = "ExponentTooBig") <=> (val.exponent > MaxExponent(ty))
           /\ (ty.nbits % 8 = 0) => (out.st = "ok")

\* a zero significand with exponent max_exponent + 1 was rejected
C11_Witness ==
    /\ pc = "used"
    /\ out.op = "to_encoded_int"
    /\ val.significand = 0
    /\ val.exponent = MaxExponent(ty) + 1
    /\ out.st = "ExponentTooBig"

----------------------------------------------------------------------------
(* C12: fixed encoded length.  For every value for which to_encoded_int        *)
(* succeeds and whose significand is in the NBITS range, encode returns        *)
(* exactly encode_len(NBITS) = (NBITS + 8 - NBITS mod 8) / 8 bytes: the        *)
(* big-endian bytes of to_encoded_int, left-padded with zero bytes (5 bytes    *)
(* for NBITS = 35, 4 for 24, 3 for 16 and 18).                                 *)

\* (NBITS + 8 - NBITS mod 8) / 8
EncodeLen(n) == (n + 8 - (n % 8)) \div 8

\* encode was applied to a value that to_encoded_int accepts, with its
\* significand in the NBITS range
EncodedInRange ==
    /\ pc = "used"
    /\ out.op = "encode"
    /\ to_encoded_int(ty, val).st = "ok"
    /\ SigInRange(ty, val.significand)

C12_EncodeLength ==
    /\ encode_len(ty) = EncodeLen(ty.nbits)
    /\ EncodeLen(35) = 5 /\ EncodeLen(24) = 4 /\ EncodeLen(16) = 3 /\ EncodeLen(18) = 3
    /\ EncodedInRange
          => /\ out.st = "ok"
             /\ Len(out.b) = EncodeLen(ty.nbits)
             /\ \A i \in 1..Len(out.b) : out.b[i] \in 0..U8Max
             /\ from_bytes_be(out.b) = to_encoded_int(ty, val).v

\* a negative significand was encoded into two bytes or more, the first a
\* padding byte
C12_Witness ==
    /\ EncodedInRange
    /\ val.significand < 0
    /\ out.st = "ok"
    /\ Len(out.b) >= 2
    /\ out.b[1] = 0
    /\ out.b[Len(out.b)] # 0

----------------------------------------------------------------------------
(* C13: zero on the wire.  The zero value {significand: 0, exponent: 0}        *)
(* encodes to encode_len(NBITS) bytes that are all 0x00, and decode of an      *)
(* all-zero buffer of that length returns {exponent: 0, significand: 0}.       *)

AllZero(b) == \A i \in 1..Len(b) : b[i] = 0

C13_ZeroOnWire ==
    /\ (pc = "used" /\ out.op = "encode" /\ val = Ok(0, 0))
          => /\ out.st = "ok"
             /\ Len(out.b) = EncodeLen(ty.nbits)
             /\ AllZero(out.b)
    /\ (Returned("bytes") /\ Len(src.data) = EncodeLen(ty.nbits) /\ AllZero(src.data))
          => val = Ok(0, 0)

\* an all-zero buffer was decoded to zero, which was encoded to the same buffer
C13_Witness ==
    /\ pc = "used"
    /\ src.kind = "bytes"
    /\ Len(src.data) = EncodeLen(ty.nbits)
    /\ AllZero(src.data)
    /\ val = Ok(0, 0)
    /\ out.op = "encode"
    /\ out.b = src.data

----------------------------------------------------------------------------
(* C14: malformed length is rejected, decode of a buffer with fewer or more    *)
(* bytes than encode_len(NBITS) returns a length (TryFromSlice) error, never a *)
(* value.  decode reads a buffer of any length as one big-endian integer.      *)

C14_LengthRejected ==
    (Returned("bytes") /\ Len(src.data) # EncodeLen(ty.nbits))
        => val.st = "TryFromSlice"

----------------------------------------------------------------------------
(* C15: no abort on construct-then-encode, encode completes and returns bytes  *)
(* for every value returned by from_decimal, from_bigint or decode.  The       *)
(* constructors return exponents above max_exp, on which the unwrap of         *)
(* to_encoded_int aborts.                                                      *)

C15_EncodeNoAbort ==
    (pc = "used" /\ out.op = "encode" /\ src.kind \in {"bigint", "decimal", "bytes"})
        => out.st = "ok"

----------------------------------------------------------------------------
(* C16: Precision error of from_decimal.  As stated, for a nonzero value       *)
(* from_decimal(value, prec) fails with Precision whenever the scale of value  *)
(* exceeds prec or value * 10^prec is not an exact integer.                    *)

\* C16 as stated: violated by a value whose scale exceeds prec only in
\* trailing zeros
C16_PrecisionError ==
    (Returned("decimal") /\ src.d.m # 0
        /\ (src.d.scale > src.prec \/ ~DecIsInt(src.d, src.prec)))
        => val.st = "Precision"

\* C16 amended: for a nonzero value, from_decimal fails with Precision exactly
\* when value * 10^prec is not an integer; a scale above prec is accepted when
\* the digits beyond prec are zeros
C16_PrecisionExact ==
    (Returned("decimal") /\ src.d.m # 0)
        => (val.st = "Precision") <=> ~DecIsInt(src.d, src.prec)

\* a negative value with a trailing zero, yet with a nonzero digit beyond prec,
\* was rejected
C16_Witness ==
    /\ Returned("decimal")
    /\ src.d.m < 0
    /\ src.d.m % 10 = 0
    /\ src.prec > 0
    /\ src.d.scale > src.prec
    /\ val.st = "Precision"

----------------------------------------------------------------------------
(* C17: to_decimal(prec) returns, for every value and every prec, the decimal  *)
(* significand * 10^(exponent - prec): the significand with scale              *)
(* prec - exponent when exponent < prec, the significand times                 *)
(* 10^(exponent - prec) otherwise.  The code aborts when prec - exponent is    *)
(* not a scale a Decimal can have.                                             *)

C17_ToDecimalValue ==
    (pc = "used" /\ out.op = "to_decimal")
        => /\ out.st = "ok"
           /\ DecEq(out.d,
                    IF val.exponent < out.prec
                    THEN Dec(val.significand, out.prec - val.exponent)
                    ELSE Dec(val.significand * Pow10(val.exponent - out.prec), 0))

----------------------------------------------------------------------------
(* C18: byte layout scenario.  As stated, encoding                             *)
(* {exponent: 0, significand: 65536} with Floats<i32, 24> yields the 4 bytes   *)
(* [0x01, 0x01, 0x00, 0x00].                                                   *)

\* encode was applied to {exponent: e, significand: 65536} of Floats<i32, 24>
EncodedScenario(e) ==
    /\ pc = "used"
    /\ out.op = "encode"
    /\ ty = I32N(24)
    /\ val = Ok(e, 65536)

\* C18 as stated: violated, the first byte holds the exponent, which is 0
C18_ByteLayout == EncodedScenario(0) => (out.st = "ok" /\ out.b = <<1, 1, 0, 0>>)

\* C18 amended: [0x01, 0x01, 0x00, 0x00] is the encoding of
\* {exponent: 1, significand: 65536}; {exponent: 0, significand: 65536}
\* encodes to [0x00, 0x01, 0x00, 0x00]
C18_ByteLayoutExponent ==
    /\ EncodedScenario(1) => (out.st = "ok" /\ out.b = <<1, 1, 0, 0>>)
    /\ EncodedScenario(0) => (out.st = "ok" /\ out.b = <<0, 1, 0, 0>>)

\* the struct literal of test_encode (m3) was encoded
C18_Witness ==
    /\ EncodedScenario(1)
    /\ src.kind = "literal"
    /\ out.st = "ok"
    /\ Len(out.b) = 4

----------------------------------------------------------------------------
(* C19: ordered merge.  For any list of finite sources (any number of them     *)
(* empty), each sorted in the requested order, iterating MergeSortIterator to  *)
(* exhaustion yields a sequence sorted in that order (non-decreasing for Asc,  *)
(* non-increasing for Desc) that is a permutation of all the source elements:  *)
(* nothing is lost, duplicated or invented.                                    *)

\* q is sorted in the order ord
InOrder(q, ord) ==
    \A i \in 1..(Len(q) - 1) :
        IF ord = "Asc" THEN q[i].key <= q[i + 1].key ELSE q[i].key >= q[i + 1].key

AllSourcesSorted == \A i \in 1..Len(inputs) : InOrder(inputs[i], ordering)

\* all elements of all sources; the elements are pairwise distinct
SourceElems == UNION {{inputs[i][j] : j \in 1..Len(inputs[i])} : i \in 1..Len(inputs)}

\* next() has returned None
Exhausted == mpc = "end"

C19_OrderedMerge ==
    /\ (mpc \in {"iter", "end", "panic"} /\ AllSourcesSorted)
          => /\ mpc # "panic"
             /\ InOrder(emitted, ordering)
             /\ {emitted[k] : k \in 1..Len(emitted)} \subseteq SourceElems
             /\ \A k, l \in 1..Len(emitted) : emitted[k] = emitted[l] => k = l
    /\ (Exhausted /\ AllSourcesSorted)
          => {emitted[k] : k \in 1..Len(emitted)} = SourceElems

\* three sources, the first empty, merged in descending order with equal keys
\* in different sources
C19_Witness ==
    /\ Exhausted
    /\ AllSourcesSorted
    /\ ordering = "Desc"
    /\ Len(inputs) = 3
    /\ inputs[1] = <<>>
    /\ Len(emitted) = 4
    /\ emitted[1].key > emitted[4].key
    /\ emitted[2].key = emitted[3].key
    /\ emitted[2].src # emitted[3].src

----------------------------------------------------------------------------
(* C20: Float864 wire round trip.  For every exponent in 0..=255 and every     *)
(* u64 significand, encode returns exactly 9 bytes, the exponent byte followed *)
(* by the significand as 8 big-endian bytes, and decode of those bytes returns *)
(* the same exponent and significand.                                          *)

\* the value of the u64 is the sum of limb[k] * 2^(16 * (4 - k)): bytes 2k and
\* 2k + 1 of the encoding are the high and the low byte of limb k
BigEndianOf(b, x) ==
    \A k \in 1..4 : b[2 * k] * U8Mod + b[2 * k + 1] = x[k]

C20_Float864RoundTrip ==
    /\ (fpc \in {"encoded", "done"})
          => /\ Len(fbytes) = 9
             /\ \A i \in 1..Len(fbytes) : fbytes[i] \in 0..U8Max
             /\ fbytes[1] = fval.exponent
             /\ BigEndianOf(fbytes, fval.significand)
    /\ (fpc = "done")
          => /\ fback.st = "ok"
             /\ fback.exponent = fval.exponent
             /\ fback.significand = fval.significand

\* a value with exponent 255 and unequal limbs went through encode and decode
C20_Witness ==
    /\ fpc = "done"
    /\ fval.exponent = U8Max
    /\ fval.significand[1] = U16Mod - 1
    /\ fval.significand[2] = U8Mod
    /\ fval.significand[4] = 1
    /\ fback.st = "ok"
    /\ fbytes[2] = U8Max
    /\ fbytes[9] = 1

----------------------------------------------------------------------------
(* C22: unordered-source detection.  In a debug build next() aborts with       *)
(* "provided iterator is not ordered" when a source yields an element that is  *)
(* out of order with respect to the element the same source yielded before,    *)
(* from the second element of every source on: no such element is ever         *)
(* returned.  The code stores an element in last_elements only when the index  *)
(* is already there, so the map stays empty and nothing is detected.           *)

\* y after x in one source contradicts the order ord
OutOfOrder(x, y, ord) ==
    \/ (ord = "Asc" /\ compare(x, y) = "Greater")
    \/ (ord = "Desc" /\ compare(x, y) = "Less")

C22_UnorderedDetected ==
    (mbuild = "debug")
        => \A k \in 1..Len(emitted) :
              LET x == emitted[k] IN
              (x.pos >= 2) => ~OutOfOrder(inputs[x.src][x.pos - 1], x, ordering)

----------------------------------------------------------------------------
(* C23: merge termination.  With N the total number of elements of the         *)
(* sources, next() returns Some exactly N times and None on the call after     *)
(* that and on every later call; a source that returned None is never polled   *)
(* again, and a source that is empty at construction is polled exactly once.   *)

\* N: the elements are pairwise distinct records
TotalElems == Cardinality(SourceElems)

C23_MergeTermination ==
    /\ mpc # "panic"
    /\ (mpc \in {"iter", "end"})
          => /\ Len(emitted) <= TotalElems
             /\ (DOMAIN buffered = {}) <=> (Len(emitted) = TotalElems)
             /\ (mpc = "end") <=> (nones >= 1)
             /\ (nones >= 1) => (DOMAIN buffered = {} /\ Len(emitted) = TotalElems)
             /\ \A i \in 1..Len(inputs) :
                   /\ polls[i] <= Len(inputs[i]) + 1
                   /\ (Len(inputs[i]) = 0) => (polls[i] = 1)
                   /\ (mpc = "end") => (polls[i] = Len(inputs[i]) + 1)

\* three sources, the second empty, drained; next() was called again after its
\* first None
C23_Witness ==
    /\ mpc = "end"
    /\ nones >= 2
    /\ Len(inputs) = 3
    /\ inputs[2] = <<>>
    /\ Len(emitted) = 4
    /\ polls = <<3, 1, 3>>

----------------------------------------------------------------------------
(* C30: buffer invariant.  After construction and after every next(),          *)
(* buffered has an entry for index i exactly when source i still has an        *)
(* element that was not returned, that entry is the earliest such element of   *)
(* source i, and every key of buffered is a key of sources, so that the        *)
(* unwraps of arg_cmp_by and swap_next do not fail.                            *)

\* how many elements of the given source i were returned
EmittedFrom(i) == Cardinality({k \in 1..Len(emitted) : emitted[k].src = i})

C30_BufferInvariant ==
    (mpc \in {"iter", "end"})
        => /\ DOMAIN buffered \subseteq DOMAIN sources
           /\ \A idx \in DOMAIN sources :
                 LET o == sources[idx].orig
                     n == EmittedFrom(o)
                 IN  /\ (idx \in DOMAIN buffered) <=> (n < Len(inputs[o]))
                     /\ (idx \in DOMAIN buffered)
                           => /\ buffered[idx] = inputs[o][n + 1]
                              /\ sources[idx].rest
                                    = SubSeq(inputs[o], n + 2, Len(inputs[o]))

\* an empty source was dropped, so indices differ from positions; one source is
\* drained and another still buffered
C30_Witness ==
    /\ mpc = "iter"
    /\ Len(emitted) >= 2
    /\ DOMAIN buffered # {}
    /\ DOMAIN buffered # DOMAIN sources
    /\ \E idx \in DOMAIN buffered :
          /\ sources[idx].orig # idx + 1
          /\ buffered[idx].pos = 2

----------------------------------------------------------------------------
(* C24: equivalence with the old implementation.  For every list of sources,   *)
(* each sorted in the requested order, and for both Asc and Desc, the          *)
(* BTreeMap-based MergeSortIterator and the Vec<Option<T>>-based one of the    *)
(* bench return the same sequence, element by element, including the order     *)
(* among equal elements, and end after the same number of elements.            *)

\* p is a prefix of q
IsPrefix(p, q) == Len(p) <= Len(q) /\ p = SubSeq(q, 1, Len(p))

C24_OldImplEquivalent ==
    (AllSourcesSorted /\ mpc \in {"iter", "end", "panic"}
                      /\ opc \in {"iter", "end", "panic"})
        => /\ mpc # "panic"
           /\ opc # "panic"
           /\ IsPrefix(emitted, old_emitted) \/ IsPrefix(old_emitted, emitted)
           /\ (mpc = "end" /\ opc = "end") => (emitted = old_emitted)

\* both iterators were drained on three sources, the first empty, in
\* descending order, with equal keys in different sources
C24_Witness ==
    /\ mpc = "end"
    /\ opc = "end"
    /\ AllSourcesSorted
    /\ ordering = "Desc"
    /\ Len(inputs) = 3
    /\ inputs[1] = <<>>
    /\ Len(old_emitted) = 4
    /\ old_emitted[1].key = old_emitted[2].key
    /\ old_emitted[1].src # old_emitted[2].src
    /\ old_emitted[3].key < old_emitted[2].key

----------------------------------------------------------------------------
(* C25: reverse round trip.  As stated, for every buffer b of exactly          *)
(* encode_len bytes for which decode succeeds, encode(decode(b)) == b,         *)
(* including the buffers whose significand field is zero with a nonzero        *)
(* exponent field and those whose significand field is exactly 2^(NBITS-1).    *)

\* a buffer of encode_len bytes was decoded and the value encoded again
DecodedThenEncoded ==
    /\ pc = "used"
    /\ src.kind = "bytes"
    /\ out.op = "encode"
    /\ Len(src.data) = EncodeLen(ty.nbits)

\* C25 as stated: violated by a zero significand field under a nonzero exponent
C25_ReverseRoundTrip ==
    DecodedThenEncoded => (out.st = "ok" /\ out.b = src.data)

\* what the code does: the round trip holds for every buffer whose significand
\* field is nonzero, 2^(NBITS-1) included; a buffer whose significand field is
\* zero comes back as encode_len zero bytes, whatever its exponent field
C25_ReverseRoundTripNonzero ==
    DecodedThenEncoded
        => /\ out.st = "ok"
           /\ out.b = IF from_bytes_be(src.data) % Pow2(ty.nbits) # 0
                      THEN src.data
                      ELSE [i \in 1..EncodeLen(ty.nbits) |-> 0]

\* a buffer of a signed type with exponent field 1 and significand field
\* 2^(NBITS-1) came back unchanged
C25_SignBitWitness ==
    /\ DecodedThenEncoded
    /\ ty.signed
    /\ from_bytes_be(src.data) = Pow2(ty.nbits) + Pow2(ty.nbits - 1)
    /\ val.exponent = 1
    /\ out.b = src.data

\* a buffer with exponent field 1 and significand field 0 came back as zeros
C25_ZeroFieldWitness ==
    /\ DecodedThenEncoded
    /\ from_bytes_be(src.data) = Pow2(ty.nbits)
    /\ val = Ok(1, 0)
    /\ AllZero(out.b)

----------------------------------------------------------------------------
(* C26: from_bigint terminates.  For every input, zero and byte-aligned NBITS  *)
(* included, the stripping loop of from_bigint ends and from_bigint returns,   *)
(* without overflowing the u8 exponent counter.  With NBITS a multiple of 8    *)
(* max_exp is 255, the bound exponent <= max_exp always holds, and for the     *)
(* input 0 the loop runs into `exponent += 1` at 255.                          *)

C26_FromBigintTerminates ==
    /\ (pc = "from_bigint")
          => ~(from_bigint_cond(ty, loop) /\ from_bigint_overflow(loop))
    /\ Returned("bigint") => (val.st # "panic")

----------------------------------------------------------------------------
(* C27: from_decimal terminates.  For every decimal and every prec the loop of *)
(* from_decimal ends and from_decimal returns; the loop never reaches          *)
(* test == 0, neither for a negative decimal given to an unsigned T nor for a  *)
(* magnitude just above the bound of a small NBITS.  At test == 0 the          *)
(* condition next * 10 == test holds for ever.                                 *)

C27_FromDecimalTerminates ==
    /\ (pc = "from_decimal") => (loop.n # 0)
    /\ Returned("decimal") => (val.st \notin {"panic", "hang"})

----------------------------------------------------------------------------
(* C29: field isolation in to_encoded_int.  For every struct literal with any  *)
(* nonzero value of T as significand and exponent <= max_exponent(NBITS), a    *)
(* successful to_encoded_int returns r with r >> NBITS == exponent and         *)
(* r < 2^(8 * encode_len): the significand never reaches the exponent bits.    *)
(* The code adds the significand unmasked, so a value of T outside the NBITS   *)
(* range carries into, or borrows from, the exponent bits.                     *)

\* to_encoded_int was applied to a literal with a nonzero significand and an
\* exponent within the bound, and returned an integer
LiteralPacked ==
    /\ pc = "used"
    /\ src.kind = "literal"
    /\ out.op = "to_encoded_int"
    /\ out.st = "ok"
    /\ val.significand # 0
    /\ val.exponent <= MaxExponent(ty)

\* r < 2^(8 * encode_len), written with the quotient by 2^(8 * encode_len - 2)
C29_FieldIsolation ==
    LiteralPacked
        => /\ out.v \div Pow2(ty.nbits) = val.exponent
           /\ out.v \div Pow2(8 * EncodeLen(ty.nbits) - 2) < 4

----------------------------------------------------------------------------
(* C28: agreement of the constructors.  For every decimal d and prec for which *)
(* m = d * 10^prec is an exact integer, whenever from_bigint(m) succeeds,      *)
(* from_decimal(d, prec) succeeds too, with the same significand and the same  *)
(* exponent.                                                                   *)

\* from_bigint(m) succeeded and from_decimal was called with d * 10^prec == m
BothConstructed == pc = "agreed" /\ val.st = "ok"

C28_ConstructorsAgree ==
    BothConstructed
        => /\ twin.res.st = "ok"
           /\ twin.res.exponent = val.exponent
           /\ twin.res.significand = val.significand

\* what the code does: the two results agree whenever m is not zero and
\* from_bigint returned an exponent within max_exponent(NBITS)
C28_AgreeWithinBound ==
    (BothConstructed /\ src.n # 0 /\ val.exponent <= MaxExponent(ty))
        => /\ twin.res.st = "ok"
           /\ twin.res.exponent = val.exponent
           /\ twin.res.significand = val.significand

\* both constructors returned {exponent: 1, significand: 5} for 50 = 0.5 * 10^2
C28_AgreeWitness ==
    /\ BothConstructed
    /\ src.n = 50
    /\ twin.d = Dec(5, 1)
    /\ twin.prec = 2
    /\ twin.res = Ok(1, 5)
    /\ val = Ok(1, 5)

----------------------------------------------------------------------------
(* C21: Float864::from_decimal factorization.  For every nonzero non-negative  *)
(* decimal d and every prec for which from_decimal succeeds, the result        *)
(* satisfies significand * 10^exponent == d * 10^prec exactly, the significand *)
(* is not divisible by 10 and is at most u64::MAX / 4, and to_decimal(prec) of *)
(* the result equals d.                                                        *)

\* from_decimal returned a value for a nonzero non-negative decimal
Constructed864 ==
    /\ fpc \in {"constructed", "converted"}
    /\ fsrc.d.digs # <<>>
    /\ ~fsrc.d.neg
    /\ fval.st = "ok"

\* the u64 modulo 10: 2^16, 2^32 and 2^48 are all 6 modulo 10
U64Mod10(x) == (6 * (x[1] + x[2] + x[3]) + x[4]) % 10

C21_Float864Factorization ==
    /\ Constructed864
          => /\ BigDecEq(BigDec(FALSE,
                                u64_digits(fval.significand)
                                    \o [i \in 1..fval.exponent |-> 0], 0),
                         BigDec(FALSE,
                                fsrc.d.digs \o [i \in 1..fsrc.prec |-> 0],
                                fsrc.d.scale))
             /\ U64Mod10(fval.significand) # 0
             /\ fval.significand[1] < U16Mod \div 4
    /\ (Constructed864 /\ fpc = "converted" /\ fout.prec = fsrc.prec)
          => /\ fout.st = "ok"
             /\ BigDecEq(fout.d, fsrc.d)

\* 461168601842738790.3 with prec 5: the significand is u64::MAX / 4, the
\* exponent 4, and to_decimal(5) gave the decimal back
C21_Witness ==
    /\ Constructed864
    /\ fpc = "converted"
    /\ fsrc.d = BigDec(FALSE, U64MaxDiv4Digits, 1)
    /\ fsrc.prec = 5
    /\ fout.prec = 5
    /\ fval = Ok(4, <<U16Mod \div 4 - 1, U16Mod - 1, U16Mod - 1, U16Mod - 1>>)
    /\ fout.st = "ok"
    /\ fout.d = fsrc.d

====
